---------------------------- MODULE Spec2Model ----------------------------
(***************************************************************************)
(* Citation collection (OpenAlexAPI in data_collector.py) and citation     *)
(* graph construction (build_citation_graph in graph_builder.py).          *)
(*                                                                         *)
(* Specifications:                                                         *)
(*   SpecRequest  a sequence of _make_request calls on one client          *)
(*   Spec         one run of get_citations on a fresh client               *)
(*   SpecPaginate one call of query_citation_url, pages of chosen sizes    *)
(*   SpecNorm     the normalization loop of get_citations, record by record*)
(*   SpecFields   the same loop on entries with ill-formed list fields     *)
(*   SpecAbstract _reconstruct_abstract called twice on one index          *)
(*   SpecGraph    one run of build_citation_graph                          *)
(***************************************************************************)
EXTENDS Integers, Sequences, FiniteSets, TLC

VARIABLES
    \* OpenAlexAPI.__init__ arguments and get_citations argument
    max_retries, max_citations,
    \* OpenAlexAPI fields
    request_count, query_alex_repsone, citation_url, cites,
    \* control position and locals of the running method
    pc, attempt, page, all_citations, citations, idx, result,
    \* history of the HTTP traffic (not program state); ret is what the
    \* latest _make_request call ended in
    gets, outcomes, ret, calls, pages, fetched, ratelimited, backoff, accepted,
    exc, keylog,
    \* build_citation_graph: arguments, locals, returned values
    root_arg, data, root_title, root_id, G, cited_papers, gi, edges, gpc,
    \* get_citations argument, log of the _make_request calls, body of the
    \* search response
    include_abstracts, reqs, sbody,
    \* _reconstruct_abstract: argument, position, returned strings
    abstract_inverted_index, apc, abstract, again

cvars == <<max_retries, max_citations, request_count, query_alex_repsone,
           citation_url, cites, pc, attempt, page, all_citations, citations,
           idx, result, gets, outcomes, ret, calls, pages, fetched,
           ratelimited, backoff, accepted, exc, keylog>>
gvars == <<root_arg, data, root_title, root_id, G, cited_papers, gi, edges, gpc>>
hvars == <<include_abstracts, reqs, sbody>>
avars == <<abstract_inverted_index, apc, abstract, again>>
vars == <<cvars, gvars, hvars, avars>>

(***************************************************************************)
(* Bounds of the model.                                                    *)
(***************************************************************************)
MaxRetries == 3     \* max_retries ranges over 1..MaxRetries
MaxCalls == 2       \* _make_request calls in SpecRequest
MaxShort == 1       \* length of an arbitrary-shaped page in Spec
MaxRecs == 2        \* length of the raw sequence in SpecNorm
MaxCited == 2       \* number of keys of the citation mapping in SpecGraph

(***************************************************************************)
(* JSON / Python values.  A scalar is a tagged record so that None, an     *)
(* absent key, an unhashable list and a string can be told apart.          *)
(***************************************************************************)
Str(s) == [t |-> "str", s |-> s]
None == [t |-> "none", s |-> ""]
Absent == [t |-> "absent", s |-> ""]
ListVal == [t |-> "list", s |-> ""]     \* a non-empty list, e.g. ["W2"]

\* dict.get(key) / dict.get(key, None): an absent key reads as None
GetOrNone(v) == IF v = Absent THEN None ELSE v
\* truth value: None and "" are falsy; a non-empty string and a non-empty
\* list (ListVal) are truthy
Truthy(v) == (v.t = "str" /\ v.s # "") \/ v.t = "list"
\* only hashable values can be dictionary keys
Hashable(v) == v.t # "list"

\* dict[key] = value on a mapping modelled as a function
Put(d, k, v) == [x \in (DOMAIN d) \cup {k} |-> IF x = k THEN v ELSE d[x]]
EmptyDict == [x \in {} |-> 0]

\* a response body: unparsable, a JSON value that is no object, or an object
\* whose 'results' is absent, null or a list; NoBody when no response came
Body(kind, rt, items) == [kind |-> kind, results |-> [t |-> rt, items |-> items]]
NoBody == Body("none", "absent", <<>>)

(***************************************************************************)
(* _make_request (data_collector.py 28-56).  One step is one iteration of  *)
(* the retry loop: the rate-limiting sleep, the GET and the handling of    *)
(* its outcome.                                                            *)
(***************************************************************************)
Outcomes == {"200", "429", "other", "fault"}

\* line 14: max_retries: int = 3
DefaultMaxRetries == 3

\* 2 ** attempt
RECURSIVE Pow2(_)
Pow2(n) == IF n = 0 THEN 1 ELSE 2 * Pow2(n - 1)

\* line 33: the rate-limiting sleep happens when request_count > 0
RateLimitSleep == request_count > 0

\* line 37: request_count += 1 is reached only when requests.get returned
Counted(o) == o # "fault"

\* lines 47, 52: attempt == self.max_retries - 1
LastAttempt == attempt = max_retries - 1

\* what one loop iteration ends in: the response is returned (40), an
\* exception leaves _make_request (48, 53, 56), or the loop goes on
StepResultMut(o) ==
    IF o = "200" THEN "returned"
    ELSE IF LastAttempt /\ o # "429" THEN "raised"
    ELSE "retry"
StepResult(o) ==
    IF o = "200" THEN "returned"
    ELSE IF LastAttempt THEN "raised"
    ELSE "retry"

\* the exception that leaves _make_request: the RequestException is re-raised
\* (53); a last non-200 status raises Exception (48), a last 429 falls out
\* of the loop to line 56
RaisedExc(o) == IF o = "fault" THEN "RequestException" ELSE "Exception"

\* an except clause catches the exceptions of its class and subclasses; all
\* exceptions raised here (Exception, RequestException, AttributeError,
\* TypeError, ValueError) derive from Exception
Catches(handler, e) == handler = "Exception" \/ handler = e

\* lines 42-44, 54: sleep delay * 2**attempt after a 429 and after a fault
\* that is not re-raised; no sleep after another status.  In units of delay.
BackoffAfter(o) ==
    IF o = "429" THEN Pow2(attempt)
    ELSE IF o = "fault" /\ ~LastAttempt THEN Pow2(attempt)
    ELSE 0

\* One iteration of the loop of _make_request with outcome o of the GET.
MakeRequestStep(o) ==
    /\ ratelimited' = RateLimitSleep
    /\ gets' = gets + 1
    /\ request_count' = IF Counted(o) THEN request_count + 1 ELSE request_count
    /\ backoff' = BackoffAfter(o)
    /\ attempt' = IF StepResult(o) = "retry" THEN attempt + 1 ELSE 0

(***************************************************************************)
(* SpecRequest: _make_request called MaxCalls times on one client.         *)
(***************************************************************************)
GraphIdle ==
    /\ root_arg = <<>> /\ data = EmptyDict /\ root_title = None
    /\ root_id = <<>> /\ G = [nodes |-> EmptyDict, edges |-> {}]
    /\ cited_papers = <<>> /\ gi = 0 /\ edges = <<>> /\ gpc = "idle"

\* no call of _reconstruct_abstract is in progress
AbstractIdle ==
    /\ abstract_inverted_index = <<>> /\ apc = "idle"
    /\ abstract = "" /\ again = ""

\* __init__ (14-26)
ClientInit ==
    /\ request_count = 0
    /\ query_alex_repsone = None
    /\ citation_url = None
    /\ gets = 0 /\ outcomes = <<>> /\ ret = "none" /\ calls = 0
    /\ pages = <<>> /\ fetched = <<>> /\ ratelimited = FALSE /\ backoff = 0
    /\ exc = "none" /\ keylog = <<>>
    /\ attempt = 0 /\ page = 0 /\ all_citations = <<>>
    /\ citations = EmptyDict /\ idx = 0 /\ accepted = 0
    /\ result = None
    /\ reqs = <<>> /\ sbody = NoBody

\* a client on which no method is running
ClientIdle ==
    /\ ClientInit
    /\ include_abstracts = FALSE
    /\ max_retries = DefaultMaxRetries
    /\ max_citations = 0
    /\ cites = None
    /\ pc = "idle"

InitRequest ==
    /\ AbstractIdle
    /\ ClientInit
    /\ include_abstracts = FALSE
    /\ max_retries \in 1..MaxRetries
    /\ cites = None
    /\ max_citations = 0
    /\ pc = "idle"
    /\ GraphIdle

\* a caller enters _make_request (line 30, attempt = 0)
RequestCall ==
    /\ pc = "idle"
    /\ calls < MaxCalls
    /\ pc' = "request"
    /\ calls' = calls + 1
    /\ attempt' = 0
    /\ outcomes' = <<>>
    /\ ret' = "none"
    /\ UNCHANGED <<max_retries, max_citations, request_count, query_alex_repsone,
                   citation_url, cites, page, all_citations, citations, idx,
                   result, gets, pages, fetched, ratelimited, backoff, accepted,
                   exc, keylog>>
    /\ UNCHANGED gvars
    /\ UNCHANGED <<hvars, avars>>

\* one GET attempt of the running call
RequestAttempt ==
    /\ pc = "request"
    /\ \E o \in Outcomes :
        /\ MakeRequestStep(o)
        /\ outcomes' = Append(outcomes, o)
        /\ ret' = IF StepResult(o) = "retry" THEN "none" ELSE StepResult(o)
        /\ pc' = IF StepResult(o) = "retry" THEN "request" ELSE "idle"
    /\ UNCHANGED <<max_retries, max_citations, query_alex_repsone, citation_url,
                   cites, page, all_citations, citations, idx, result, calls,
                   pages, fetched, accepted, exc, keylog>>
    /\ UNCHANGED gvars
    /\ UNCHANGED <<hvars, avars>>

NextRequest == RequestCall \/ RequestAttempt

SpecRequest == InitRequest /\ [][NextRequest]_vars

(***************************************************************************)
(* _reconstruct_abstract (251-264).  An inverted index is the sequence of  *)
(* its items in iteration order, each a word with its list of positions.   *)
(***************************************************************************)
\* lines 259-260: for pos in positions: words.append((pos, word))
PairsOf(word, positions) == [i \in 1..Len(positions) |-> <<positions[i], word>>]

\* lines 257-260: the (pos, word) pairs in iteration order
RECURSIVE Flatten(_)
Flatten(index) ==
    IF index = <<>> THEN <<>>
    ELSE PairsOf(Head(index).word, Head(index).positions) \o Flatten(Tail(index))

\* line 263: key=lambda x: x[0]; list.sort is stable, so a pair a that comes
\* earlier than b stays before b unless its key is greater
StaysBeforeMut(a, b) == a[1] < b[1]
StaysBefore(a, b) == a[1] <= b[1]

\* x, which came after every pair of sorted, takes its place in it
RECURSIVE Insert(_, _)
Insert(sorted, x) ==
    IF sorted = <<>> THEN <<x>>
    ELSE IF StaysBefore(sorted[Len(sorted)], x) THEN Append(sorted, x)
    ELSE Append(Insert(SubSeq(sorted, 1, Len(sorted) - 1), x), sorted[Len(sorted)])

\* line 263: words.sort(key=lambda x: x[0])
RECURSIVE SortByPos(_)
SortByPos(words) ==
    IF words = <<>> THEN <<>>
    ELSE Insert(SortByPos(SubSeq(words, 1, Len(words) - 1)), words[Len(words)])

\* line 264: " ".join([word for _, word in words])
RECURSIVE Join(_)
Join(words) ==
    IF words = <<>> THEN ""
    ELSE IF Len(words) = 1 THEN words[1][2]
    ELSE words[1][2] \o " " \o Join(Tail(words))

\* lines 253-264
reconstruct_abstract(index) ==
    IF index = <<>> THEN "" ELSE Join(SortByPos(Flatten(index)))

(***************************************************************************)
(* SpecAbstract: _reconstruct_abstract called twice on one index.          *)
(***************************************************************************)
MaxPos == 2         \* length of a word's list of positions
Words == {"a", "b"}
Positions == 0..2

Entry(w, ps) == [word |-> w, positions |-> ps]
PositionLists == UNION {[1..k -> Positions] : k \in 0..MaxPos}
\* the indexes: every word at most once, as the keys of a mapping are
Indexes ==
    {<<>>} \cup
    { <<Entry(w, ps)>> : w \in Words, ps \in PositionLists } \cup
    { <<Entry(wv[1], ps), Entry(wv[2], qs)>> :
        wv \in {x \in Words \X Words : x[1] # x[2]},
        ps \in PositionLists, qs \in PositionLists }

InitAbstract ==
    /\ ClientIdle
    /\ GraphIdle
    /\ abstract_inverted_index \in Indexes
    /\ apc = "call"
    /\ abstract = "" /\ again = ""

\* a call of _reconstruct_abstract returns
Reconstruct ==
    /\ apc = "call"
    /\ abstract' = reconstruct_abstract(abstract_inverted_index)
    /\ apc' = "again"
    /\ UNCHANGED <<abstract_inverted_index, again>>
    /\ UNCHANGED <<cvars, gvars, hvars>>

\* a second call on the same index returns
ReconstructAgain ==
    /\ apc = "again"
    /\ again' = reconstruct_abstract(abstract_inverted_index)
    /\ apc' = "done"
    /\ UNCHANGED <<abstract_inverted_index, abstract>>
    /\ UNCHANGED <<cvars, gvars, hvars>>

NextAbstract == Reconstruct \/ ReconstructAgain

SpecAbstract == InitAbstract /\ [][NextAbstract]_vars

(***************************************************************************)
(* Raw API records and their normalization (get_citations 168-223).        *)
(***************************************************************************)
\* nested objects: t says whether the key is absent, null or an object
Src(t, dn) == [t |-> t, display_name |-> dn]
PLoc(t, src) == [t |-> t, source |-> src]
PLAbsent == PLoc("absent", Src("absent", Absent))
PLNone == PLoc("none", Src("absent", Absent))
PLNoSource == PLoc("dict", Src("absent", Absent))
PLSourceNone == PLoc("dict", Src("none", Absent))
PLNoName == PLoc("dict", Src("dict", Absent))
PLNameNone == PLoc("dict", Src("dict", None))
PLFull == PLoc("dict", Src("dict", Str("V")))
PLocs == {PLAbsent, PLNone, PLNoSource, PLSourceNone, PLNoName, PLNameNone, PLFull}

\* a raw citation entry: a mapping with an id and a primary_location, or a
\* value that is not a mapping
\* the other fields of a raw entry are absent unless set with EXCEPT
Rec(id, pl) ==
    [isdict |-> TRUE, id |-> id, primary_location |-> pl,
     related_works |-> [t |-> "absent", items |-> <<>>],
     referenced_works |-> [t |-> "absent", items |-> <<>>],
     authorships |-> [t |-> "absent", items |-> <<>>],
     concepts |-> [t |-> "absent", items |-> <<>>],
     abstract_inverted_index |-> [t |-> "absent", items |-> <<>>]]
NonDictRec == [Rec(Absent, PLAbsent) EXCEPT !.isdict = FALSE]

\* a JSON value where a list is expected: the key is absent, or the value
\* is null, a list, a string (items: its characters), a non-zero number
\* or an object (items: its items)
JAbsent == [t |-> "absent", items |-> <<>>]
JNull == [t |-> "none", items |-> <<>>]
JList(items) == [t |-> "list", items |-> items]
JText == [t |-> "str", items |-> <<"x", "y">>]
JNumber == [t |-> "int", items |-> <<>>]
JObject(items) == [t |-> "dict", items |-> items]

\* lines 175, 178, 181: x if isinstance(x, list) else []
IsListMut(v) == v.t \in {"list", "none"}
IsList(v) == v.t = "list"
ListOrEmpty(v) == IF IsList(v) THEN v ELSE JList(<<>>)

\* lines 189-190: related[:10], refs[:10]
FirstTen(v) ==
    [v EXCEPT !.items = SubSeq(@, 1, IF Len(@) < 10 THEN Len(@) ELSE 10)]

\* an element of authorships: a mapping with author, raw_author_name and
\* institutions (whose first element is shown), or another value
Author(a, raw, inst) ==
    [isdict |-> TRUE, author |-> a, raw_author_name |-> raw, institutions |-> inst]
NonDictAuthor ==
    [isdict |-> FALSE, author |-> Src("absent", Absent), raw_author_name |-> Absent,
     institutions |-> [t |-> "absent", first |-> Src("absent", Absent)]]
NoInst == [t |-> "absent", first |-> Src("absent", Absent)]
EmptyInst == [t |-> "list", first |-> Src("absent", Absent)]
InstOf(first) == [t |-> "list", first |-> first]

\* a or b
Or(a, b) == IF Truthy(GetOrNone(a)) THEN a ELSE b

\* line 194: (author.get('author') or {}).get('display_name'); a string
\* has no .get
NestedName(au) == IF au.author.t = "dict" THEN GetOrNone(au.author.display_name) ELSE None
\* line 196: the first institution's display_name when institutions is a
\* non-empty list, else None
InstName(au) ==
    IF au.institutions.t = "list" /\ au.institutions.first.t # "absent"
    THEN GetOrNone(au.institutions.first.display_name) ELSE None
\* lines 192-198
AuthorName(au) ==
    IF ~au.isdict THEN Str("")
    ELSE Or(Or(Or(NestedName(au), au.raw_author_name), InstName(au)), Str(""))
\* AttributeError: author is a non-empty string (194) or, when it is
\* reached, the first institution is not a mapping (196)
AuthorRaises(au) ==
    /\ au.isdict
    /\ \/ au.author.t = "str"
       \/ /\ ~Truthy(Or(NestedName(au), au.raw_author_name))
          /\ au.institutions.t = "list"
          /\ au.institutions.first.t \in {"none", "str"}

\* lines 191-200
Authors(cite) ==
    LET a == ListOrEmpty(cite.authorships).items
    IN  JList([i \in 1..Len(a) |-> AuthorName(a[i])])
AuthorsRaise(cite) ==
    LET a == ListOrEmpty(cite.authorships).items
    IN  \E i \in 1..Len(a) : AuthorRaises(a[i])

\* an element of concepts: a mapping with display_name, or another value
Concept(dn) == [isdict |-> TRUE, display_name |-> dn]
NonDictConcept == [isdict |-> FALSE, display_name |-> Absent]
\* line 204
ConceptName(c) ==
    IF ~c.isdict THEN Str("")
    ELSE IF c.display_name = Absent THEN Str("") ELSE c.display_name
\* line 205: for c in (cite.get('concepts') or []); a string yields its
\* characters and a mapping its keys, none of them a mapping; a number
\* cannot be iterated (TypeError)
ConceptsRaise(cite) == cite.concepts.t = "int"
Concepts(cite) ==
    LET v == cite.concepts
    IN  IF v.t = "list" THEN JList([i \in 1..Len(v.items) |-> ConceptName(v.items[i])])
        ELSE IF v.t \in {"str", "dict"} THEN JList([i \in 1..Len(v.items) |-> Str("")])
        ELSE JList(<<>>)

\* lines 214-217: the abstract, when asked for and the index is a
\* non-empty mapping; "" stands for no 'abstract' key
HasAbstract(cite) ==
    /\ include_abstracts
    /\ cite.abstract_inverted_index.t \in {"dict", "baddict"}
    /\ cite.abstract_inverted_index.items # <<>>
\* line 259: for pos in positions raises TypeError when a word's value is a
\* number ("baddict")
AbstractRaises(cite) ==
    HasAbstract(cite) /\ cite.abstract_inverted_index.t = "baddict"
AbstractOf(cite) ==
    IF HasAbstract(cite)
    THEN [t |-> "str", s |-> reconstruct_abstract(cite.abstract_inverted_index.items)]
    ELSE Absent

\* line 201: (cite.get('primary_location') or {})
PlOrEmpty(pl) == IF pl.t = "dict" THEN pl ELSE PLNoSource
\* line 201: .get('source', {}) -- the default replaces an absent key only
SourceOf(pl) == IF pl.source.t = "absent" THEN Src("dict", Absent) ELSE pl.source
\* line 201: .get('display_name', '') on the source; None has no .get
VenueRaises(cite) == SourceOf(PlOrEmpty(cite.primary_location)).t = "none"
Venue(cite) ==
    LET dn == SourceOf(PlOrEmpty(cite.primary_location)).display_name
    IN  IF dn = Absent THEN Str("") ELSE dn

\* line 219: cite.get('id') or f"unknown_{len(citations)}"
CiteKeyMut(cit, cite) ==
    IF Truthy(GetOrNone(cite.id)) THEN cite.id
    ELSE Str("unknown_" \o ToString(idx))
CiteKey(cit, cite) ==
    IF Truthy(GetOrNone(cite.id)) THEN cite.id
    ELSE Str("unknown_" \o ToString(Cardinality(DOMAIN cit)))

\* lines 173-223: the try body raises (AttributeError at 194, 196 or 201,
\* TypeError at 205, 259, or at 220 for an unhashable key) and the entry is
\* skipped
CiteRaises(cit, cite) ==
    \/ AuthorsRaise(cite)
    \/ VenueRaises(cite)
    \/ ConceptsRaise(cite)
    \/ AbstractRaises(cite)
    \/ ~Hashable(CiteKey(cit, cite))

\* lines 174-217
CitationData(cite) ==
    [openalex_id |-> GetOrNone(cite.id),
     related_works |-> FirstTen(ListOrEmpty(cite.related_works)),
     references |-> FirstTen(ListOrEmpty(cite.referenced_works)),
     authors |-> Authors(cite),
     venue |-> Venue(cite),
     concepts |-> Concepts(cite),
     abstract |-> AbstractOf(cite)]

\* lines 170-223: whether the loop body stores the entry
Accepts(cit, cite) == cite.isdict /\ ~CiteRaises(cit, cite)

\* lines 169-223: one iteration of the loop over self.cites
ProcessCite(cit, cite) ==
    IF Accepts(cit, cite)
    THEN Put(cit, CiteKey(cit, cite).s, CitationData(cite))
    ELSE cit

\* lines 168-223: the whole loop
RECURSIVE ProcessAll(_, _, _)
ProcessAll(cit, seq, i) ==
    IF i > Len(seq) THEN cit
    ELSE ProcessAll(ProcessCite(cit, seq[i]), seq, i + 1)

(***************************************************************************)
(* SpecNorm: the normalization loop on a raw sequence, entry by entry.     *)
(***************************************************************************)
NormIds == {Absent, None, Str("W2"), Str("unknown_1"), ListVal}
RawRecords == {NonDictRec} \cup {Rec(id, pl) : id \in NormIds, pl \in PLocs}

SeqsUpTo(S, n) == UNION {[1..k -> S] : k \in 0..n}

InitNorm ==
    /\ AbstractIdle
    /\ ClientInit
    /\ include_abstracts = FALSE
    /\ max_retries = DefaultMaxRetries
    /\ max_citations = 0
    /\ pc = "normalize"
    /\ cites \in SeqsUpTo(RawRecords, MaxRecs)
    /\ GraphIdle

\* one iteration of the loop at 169
NormalizeStep ==
    /\ pc = "normalize"
    /\ idx < Len(cites)
    /\ citations' = ProcessCite(citations, cites[idx + 1])
    /\ accepted' = IF Accepts(citations, cites[idx + 1])
                   THEN accepted + 1 ELSE accepted
    /\ keylog' = Append(keylog,
                        [stored |-> Accepts(citations, cites[idx + 1]),
                         key |-> IF Accepts(citations, cites[idx + 1])
                                 THEN CiteKey(citations, cites[idx + 1]).s
                                 ELSE "",
                         n |-> accepted])
    /\ idx' = idx + 1
    /\ UNCHANGED <<max_retries, max_citations, request_count, query_alex_repsone,
                   citation_url, cites, pc, attempt, page, all_citations, result,
                   gets, outcomes, ret, calls, pages, fetched, ratelimited,
                   backoff, exc>>
    /\ UNCHANGED gvars
    /\ UNCHANGED <<hvars, avars>>

\* the loop is exhausted
NormalizeEnd ==
    /\ pc = "normalize"
    /\ idx = Len(cites)
    /\ pc' = "done"
    /\ UNCHANGED <<max_retries, max_citations, request_count, query_alex_repsone,
                   citation_url, cites, attempt, page, all_citations, citations,
                   idx, result, gets, outcomes, ret, calls, pages, fetched,
                   ratelimited, backoff, accepted, exc, keylog>>
    /\ UNCHANGED gvars
    /\ UNCHANGED <<hvars, avars>>

NextNorm == NormalizeStep \/ NormalizeEnd

SpecNorm == InitNorm /\ [][NextNorm]_vars

(***************************************************************************)
(* SpecFields: the normalization loop on raw entries whose list fields,    *)
(* authorships, concepts and abstract index take well- and ill-formed      *)
(* values, with and without include_abstracts.                             *)
(***************************************************************************)
FieldRec(id, rel, refs, auths, conc, inv) ==
    [Rec(id, PLFull) EXCEPT !.related_works = rel, !.referenced_works = refs,
                            !.authorships = auths, !.concepts = conc,
                            !.abstract_inverted_index = inv]

Eleven == JList([i \in 1..11 |-> "R" \o ToString(i)])
GoodIndex == JObject(<<Entry("a", <<0, 2>>), Entry("b", <<1>>)>>)
BadIndex == [t |-> "baddict", items |-> <<Entry("a", <<>>)>>]
OneAuthor(au) == JList(<<au>>)
AuthorLists ==
    { OneAuthor(NonDictAuthor),
      OneAuthor(Author(Src("absent", Absent), Absent, NoInst)),
      OneAuthor(Author(Src("dict", Str("A")), Absent, NoInst)),
      OneAuthor(Author(Src("none", Absent), Str("R"), NoInst)),
      OneAuthor(Author(Src("str", Absent), Absent, NoInst)),
      OneAuthor(Author(Src("absent", Absent), Absent, InstOf(Src("dict", Str("I"))))),
      OneAuthor(Author(Src("absent", Absent), Absent, InstOf(Src("str", Absent)))),
      OneAuthor(Author(Src("absent", Absent), Str("R"), InstOf(Src("str", Absent)))),
      OneAuthor(Author(Src("dict", None), None, EmptyInst)),
      OneAuthor(Author(Src("absent", Absent), Absent, InstOf(Src("none", Absent)))),
      OneAuthor(Author(Src("absent", Absent), Absent, InstOf(Src("dict", Absent)))) }
SomeConcepts == JList(<<Concept(Str("C")), NonDictConcept, Concept(None), Concept(Absent)>>)

FieldRecords ==
    { NonDictRec,
      FieldRec(Str("W2"), JAbsent, JAbsent, JAbsent, JAbsent, JAbsent),
      FieldRec(Str("W3"), JAbsent, JAbsent, JAbsent, JAbsent, JAbsent),
      FieldRec(Str("W2"), JNull, JNull, JNull, JNull, JNull),
      FieldRec(Absent, JText, JText, JText, JText, JText),
      FieldRec(Str("W2"), JNumber, JNumber, JNumber, JAbsent, JAbsent),
      FieldRec(Str("W3"), JAbsent, JAbsent, JAbsent, JNumber, JAbsent),
      FieldRec(Str("W2"), JObject(<<"k">>), JObject(<<"k">>), JObject(<<"k">>),
               JObject(<<"k">>), GoodIndex),
      FieldRec(Str("W3"), JList(<<>>), JList(<<>>), JList(<<>>), JList(<<>>),
               JObject(<<>>)),
      FieldRec(Str("W2"), Eleven, JList(<<"R1">>), JAbsent, SomeConcepts, BadIndex),
      FieldRec(Absent, JList(<<"R1">>), Eleven, JNull, JNull, GoodIndex) }
    \cup { FieldRec(Str("W2"), JAbsent, JAbsent, a, JAbsent, JAbsent) : a \in AuthorLists }

InitFields ==
    /\ AbstractIdle
    /\ ClientInit
    /\ include_abstracts \in BOOLEAN
    /\ max_retries = DefaultMaxRetries
    /\ max_citations = 0
    /\ pc = "normalize"
    /\ cites \in SeqsUpTo(FieldRecords, MaxRecs)
    /\ GraphIdle

SpecFields == InitFields /\ [][NextNorm]_vars

(***************************************************************************)
(* Spec: one run of get_citations (143-249) on a fresh client.  A step is  *)
(* one GET attempt together with everything the code does before it waits  *)
(* for the next response.                                                  *)
(***************************************************************************)
Query == "q"

\* line 105: per_page = 25
PerPage == 25

\* get_citations(max_citations=...) arguments explored
MaxCitationsChoices == {0, 1, 25, 30}

\* a work record of the search response: a mapping or any other value
Paper(id, url, title) ==
    [isdict |-> TRUE, id |-> id, cited_by_api_url |-> url, title |-> title]
NonDictPaper ==
    [isdict |-> FALSE, id |-> Absent, cited_by_api_url |-> Absent, title |-> Absent]
Papers ==
    { NonDictPaper,
      Paper(Absent, Absent, Absent),                \* {}
      Paper(Str("W1"), Absent, Str("T")),           \* no cited_by_api_url
      Paper(Str("W1"), None, Str("T")),             \* cited_by_api_url: null
      Paper(Str("W1"), Str("U"), Str("T")),
      Paper(Absent, Str("U"), Absent),              \* no id
      Paper(ListVal, Str("U"), Str("T")) }          \* id is not hashable
\* an empty mapping is falsy
PaperTruthy(p) ==
    p.isdict /\ (p.id # Absent \/ p.cited_by_api_url # Absent \/ p.title # Absent)

BrokenBodies ==
    { Body("badjson", "absent", <<>>), Body("nondict", "absent", <<>>) }
EmptyBodies ==
    { Body("dict", "absent", <<>>), Body("dict", "none", <<>>),
      Body("dict", "list", <<>>) }
SearchBodies ==
    BrokenBodies \cup EmptyBodies \cup
    { Body("dict", "list", <<p>>) : p \in Papers } \cup
    { Body("dict", "list", <<p, Paper(Str("W9"), Str("U9"), Str("T9"))>>) :
        p \in Papers }

\* not data.get('results')
ResultsFalsy(body) == body.results.t # "list" \/ body.results.items = <<>>

\* well-formed records W<p>_<i> of a page of n records
Filler(p, n) ==
    [i \in 1..n |-> Rec(Str("W" \o ToString(p) \o "_" \o ToString(i)), PLFull)]
BigSizes == {10, PerPage}
\* shapes of the records of a short first page
PipeRecords ==
    { NonDictRec, Rec(Str("W1_1"), PLFull), Rec(Absent, PLAbsent),
      Rec(Str("W9"), PLSourceNone), Rec(ListVal, PLAbsent) }
\* a page with citers W2, which has an author, and W3, without authorships
TwoCiters ==
    << FieldRec(Str("W2"), JAbsent, JAbsent,
                OneAuthor(Author(Src("dict", Str("A")), Absent, NoInst)),
                JAbsent, JAbsent),
       Rec(Str("W3"), PLFull) >>
PageBodies(p) ==
    BrokenBodies \cup EmptyBodies \cup {Body("dict", "list", TwoCiters)} \cup
    { Body("dict", "list", Filler(p, n)) : n \in BigSizes } \cup
    (IF p = 1
     THEN { Body("dict", "list", rs) : rs \in SeqsUpTo(PipeRecords, MaxShort) \ {<<>>} }
     ELSE {})

\* seq[:n]
Take(seq, n) == SubSeq(seq, 1, IF n < Len(seq) THEN n ELSE Len(seq))

\* the state the orchestration works on
Cur ==
    [pc |-> pc, paper |-> query_alex_repsone, url |-> citation_url,
     cites |-> cites, result |-> result, exc |-> exc, page |-> page,
     all |-> all_citations, pages |-> pages, fetched |-> fetched,
     reqs |-> reqs, sbody |-> sbody]

\* get_openalex_id(page=1, per_page=25) (58) and its params (62-67)
DefaultPage == 1
DefaultPerPage == 25
SearchRequest ==
    [url |-> "base_url", search |-> Query, page |-> DefaultPage,
     per_page |-> DefaultPerPage, sort |-> "cited_by_count:desc"]
\* the params of a citation page (110-114); no 'search' key
PageRequest(p) ==
    [url |-> "citation_url", search |-> "", page |-> p,
     per_page |-> PerPage, sort |-> "cited_by_count:desc"]

\* line 247: except Exception
TopHandlerMut == "RequestException"
TopHandler == "Exception"
\* line 135: except Exception
PageHandler == "Exception"

\* an exception raised inside the try of get_citations: caught at 247 and
\* turned into {}, or it leaves get_citations
Caught(st, e) ==
    IF Catches(TopHandler, e)
    THEN [st EXCEPT !.pc = "done", !.result = EmptyDict]
    ELSE [st EXCEPT !.pc = "done", !.exc = e]

\* self.query_alex_repsone.get('id', "root")
RootKey(paper) == IF paper.id = Absent THEN Str("root") ELSE paper.id

\* line 165: {root id: {}}
MinimalMut(paper) == EmptyDict
Minimal(paper) == [k \in {RootKey(paper).s} |-> EmptyDict]

\* lines 139-141 and 163-166: truncate, store, and return the minimal result
\* when nothing was collected
TruncateMut(seq, n) == seq
Truncate(seq, n) == Take(seq, n)
\* line 163: not self.cites
NoCitesMut(c) == FALSE
NoCites(c) == Len(c) = 0
FinishPagination(st) ==
    LET c == Truncate(st.all, max_citations)
        st1 == [st EXCEPT !.cites = c]
    IN  IF NoCites(c)
        THEN IF Hashable(RootKey(st.paper))
             THEN [st1 EXCEPT !.pc = "done", !.result = Minimal(st.paper)]
             ELSE Caught(st1, "TypeError")
        ELSE [st1 EXCEPT !.pc = "normalize"]

\* line 109: the loop test; a passed test enters _make_request for st.page
LoopTestMut(st) == Len(st.all) <= max_citations
LoopTest(st) == Len(st.all) < max_citations
EnterLoop(st) ==
    IF LoopTest(st)
    THEN [st EXCEPT !.pc = "page", !.pages = Append(@, st.page),
                    !.reqs = Append(@, PageRequest(st.page))]
    ELSE FinishPagination(st)

\* lines 99 and 156: if not self.citation_url
NoCitationUrlMut(st) == FALSE
NoCitationUrl(st) == ~Truthy(st.url)

\* lines 99-107
QueryCitationUrl(st) ==
    IF NoCitationUrl(st)
    THEN IF Hashable(RootKey(st.paper))
         THEN [st EXCEPT !.pc = "done", !.result = Minimal(st.paper)]
         ELSE Caught(st, "TypeError")
    ELSE EnterLoop([st EXCEPT !.all = <<>>, !.page = 1])

\* line 79: data['results'][0]
FirstResultMut(body) == body.results.items[Len(body.results.items)]
FirstResult(body) == body.results.items[1]

\* get_openalex_id 71-81, then get_citations 150-161
AfterSearch(st0, body) ==
    LET st == [st0 EXCEPT !.sbody = body]
    IN
    IF body.kind = "badjson" THEN Caught(st, "ValueError")
    ELSE IF body.kind = "nondict" THEN Caught(st, "AttributeError")
    ELSE IF ResultsFalsy(body)
    THEN [st EXCEPT !.paper = None, !.pc = "done", !.result = EmptyDict]
    ELSE
        LET p == FirstResult(body)
            st1 == [st EXCEPT !.paper = p]
            st2 == [st1 EXCEPT !.url = GetOrNone(p.cited_by_api_url)]
        IN  IF ~p.isdict THEN Caught(st1, "AttributeError")
            ELSE IF ~PaperTruthy(p)
            THEN [st1 EXCEPT !.pc = "done", !.result = EmptyDict]
            ELSE IF NoCitationUrl(st2)
            THEN [st2 EXCEPT !.pc = "done", !.result = EmptyDict]
            ELSE QueryCitationUrl(st2)

\* the page ended in an exception (135-137): log and break
PageFailed(st) ==
    FinishPagination([st EXCEPT !.fetched = Append(@, [ok |-> FALSE, items |-> <<>>])])

\* line 130: len(citations) < per_page ends the pagination
ShortPageMut(items) == Len(items) <= PerPage
ShortPage(items) == Len(items) < PerPage

\* lines 118-133: the page's response was received
AfterPage(st, body) ==
    IF body.kind \in {"badjson", "nondict"} THEN PageFailed(st)
    ELSE IF ResultsFalsy(body)
    THEN FinishPagination([st EXCEPT !.fetched = Append(@, [ok |-> TRUE, items |-> <<>>])])
    ELSE
        LET items == body.results.items
            st1 == [st EXCEPT !.all = @ \o items,
                              !.fetched = Append(@, [ok |-> TRUE, items |-> items])]
        IN  IF ShortPage(items) THEN FinishPagination(st1)
            ELSE EnterLoop([st1 EXCEPT !.page = @ + 1])

\* the orchestration after one GET attempt of the search request
SearchStep(st, o, body) ==
    IF StepResult(o) = "retry" THEN st
    ELSE IF StepResult(o) = "raised" THEN Caught(st, RaisedExc(o))
    ELSE AfterSearch(st, body)

\* the orchestration after one GET attempt of a citation page
PageStep(st, o, body) ==
    IF StepResult(o) = "retry" THEN st
    ELSE IF StepResult(o) = "raised"
    THEN IF Catches(PageHandler, RaisedExc(o)) THEN PageFailed(st)
         ELSE Caught(st, RaisedExc(o))
    ELSE AfterPage(st, body)

Store(out) ==
    /\ pc' = out.pc
    /\ query_alex_repsone' = out.paper
    /\ citation_url' = out.url
    /\ cites' = out.cites
    /\ result' = out.result
    /\ exc' = out.exc
    /\ page' = out.page
    /\ all_citations' = out.all
    /\ pages' = out.pages
    /\ fetched' = out.fetched
    /\ reqs' = out.reqs
    /\ sbody' = out.sbody

Init ==
    /\ AbstractIdle
    /\ ClientInit
    /\ include_abstracts = FALSE
    /\ max_retries \in 1..MaxRetries
    /\ max_citations \in MaxCitationsChoices
    /\ cites = None
    /\ pc = "search"
    /\ GraphIdle

\* lines 62-70: the first attempt belongs to a new call of _make_request
IssueSearch(st) ==
    IF attempt = 0 THEN [st EXCEPT !.reqs = Append(@, SearchRequest)] ELSE st

\* one GET attempt of get_openalex_id's request (58-70)
SearchAttempt ==
    /\ pc = "search"
    /\ \E o \in Outcomes :
        /\ MakeRequestStep(o)
        /\ ret' = IF StepResult(o) = "retry" THEN "none" ELSE StepResult(o)
        /\ \E body \in (IF o = "200" THEN SearchBodies ELSE {NoBody}) :
              Store(SearchStep(IssueSearch(Cur), o, body))
    /\ UNCHANGED <<max_retries, max_citations, citations, idx, outcomes,
                   calls, accepted, keylog>>
    /\ UNCHANGED gvars
    /\ UNCHANGED <<include_abstracts, avars>>

\* one GET attempt of query_citation_url's request for the current page,
\* the response body drawn from Bodies
PageAttemptOn(Bodies) ==
    /\ pc = "page"
    /\ \E o \in Outcomes :
        /\ MakeRequestStep(o)
        /\ ret' = IF StepResult(o) = "retry" THEN "none" ELSE StepResult(o)
        /\ \E body \in (IF o = "200" THEN Bodies ELSE {NoBody}) :
              Store(PageStep(Cur, o, body))
    /\ UNCHANGED <<max_retries, max_citations, citations, idx, outcomes,
                   calls, accepted, keylog>>
    /\ UNCHANGED gvars
    /\ UNCHANGED <<include_abstracts, avars>>

PageAttempt == PageAttemptOn(PageBodies(page))

\* lines 226-242
AssembleMut(paper, cit) ==
    LET meta == [query |-> Query,
                 total_citations |-> Len(cites),
                 requests_made |-> request_count,
                 main_paper |-> [title |-> IF paper.title = Absent THEN Str("")
                                           ELSE paper.title,
                                 id |-> IF paper.id = Absent THEN Str("")
                                        ELSE paper.id]]
    IN  [k \in {RootKey(paper).s, "_metadata"} |->
            IF k = "_metadata" THEN meta ELSE cit]
Assemble(paper, cit) ==
    LET meta == [query |-> Query,
                 total_citations |-> Cardinality(DOMAIN cit),
                 requests_made |-> request_count,
                 main_paper |-> [title |-> IF paper.title = Absent THEN Str("")
                                           ELSE paper.title,
                                 id |-> IF paper.id = Absent THEN Str("")
                                        ELSE paper.id]]
    IN  [k \in {RootKey(paper).s, "_metadata"} |->
            IF k = "_metadata" THEN meta ELSE cit]

\* lines 168-245: normalize every collected entry and assemble the result
Normalize ==
    /\ pc = "normalize"
    /\ citations' = ProcessAll(EmptyDict, cites, 1)
    /\ idx' = Len(cites)
    /\ Store(IF Hashable(RootKey(query_alex_repsone))
             THEN [Cur EXCEPT !.pc = "done",
                              !.result = Assemble(query_alex_repsone, citations')]
             ELSE Caught(Cur, "TypeError"))
    /\ UNCHANGED <<max_retries, max_citations, request_count, attempt, gets,
                   outcomes, ret, calls, ratelimited, backoff, accepted, keylog>>
    /\ UNCHANGED gvars
    /\ UNCHANGED <<include_abstracts, avars>>

Next == SearchAttempt \/ PageAttempt \/ Normalize

Spec == Init /\ [][Next]_vars

\* the run advances: some step of Next, each of which changes gets or pc,
\* can be taken as long as get_citations has not returned
Advance ==
    /\ pc # "done"
    /\ pc' \in {"search", "page", "normalize", "done"}
    /\ gets' \in {gets, gets + 1}

\* the run is sequential code whose waits are finite (the GET has
\* timeout=30 at line 36, the sleeps are finite): it does not stop before
\* get_citations returns
SpecLive == Spec /\ WF_<<pc, gets>>(Advance)

(***************************************************************************)
(* SpecPaginate: one call of query_citation_url (95-141) on a client whose *)
(* search has resolved a paper with a citation URL, over pages of chosen   *)
(* sizes.                                                                  *)
(***************************************************************************)
PaginateChoices == {0, 1, 30, 60, 100}
PaginateSizes == {1, 10, PerPage - 1, PerPage, PerPage + 1}
SizedBodies(p) ==
    BrokenBodies \cup EmptyBodies \cup
    { Body("dict", "list", Filler(p, n)) : n \in PaginateSizes }

InitPaginate ==
    /\ max_retries \in 1..MaxRetries
    /\ max_citations \in PaginateChoices
    /\ request_count = 1 /\ gets = 1
    /\ query_alex_repsone = Paper(Str("W1"), Str("U"), Str("T"))
    /\ citation_url = Str("U")
    /\ cites = None
    /\ outcomes = <<>> /\ ret = "none" /\ calls = 0
    /\ pages = <<>> /\ fetched = <<>> /\ ratelimited = FALSE /\ backoff = 0
    /\ exc = "none" /\ keylog = <<>>
    /\ attempt = 0 /\ page = 0 /\ all_citations = <<>>
    /\ citations = EmptyDict /\ idx = 0 /\ accepted = 0
    /\ result = None
    /\ include_abstracts = FALSE
    /\ reqs = <<SearchRequest>>
    /\ sbody = Body("dict", "list", <<Paper(Str("W1"), Str("U"), Str("T"))>>)
    /\ AbstractIdle
    /\ pc = "paginate"
    /\ GraphIdle

\* query_citation_url is entered (95-109)
PaginateCall ==
    /\ pc = "paginate"
    /\ Store(QueryCitationUrl(Cur))
    /\ UNCHANGED <<max_retries, max_citations, request_count, attempt, citations,
                   idx, gets, outcomes, ret, calls, ratelimited, backoff,
                   accepted, keylog>>
    /\ UNCHANGED gvars
    /\ UNCHANGED <<include_abstracts, avars>>

PaginateAttempt == PageAttemptOn(SizedBodies(page))

NextPaginate == PaginateCall \/ PaginateAttempt

SpecPaginate == InitPaginate /\ [][NextPaginate]_vars

(***************************************************************************)
(* graph_builder.py.  An identifier is a sequence of tokens: an optional   *)
(* scheme-and-host token first, then "/", "?" and name tokens, so that     *)
(* "https://openalex.org/W1" is <<"https://openalex.org", "/", "W1">>.     *)
(***************************************************************************)
Hosts == {"https://openalex.org", "https://api.openalex.org"}

\* urlparse(url).path: what follows the scheme and host, up to the query
RECURSIVE UpToQuery(_)
UpToQuery(u) ==
    IF u = <<>> \/ Head(u) = "?" THEN <<>>
    ELSE <<Head(u)>> \o UpToQuery(Tail(u))
UrlPath(u) ==
    UpToQuery(IF u # <<>> /\ Head(u) \in Hosts THEN Tail(u) ELSE u)

\* path.split('/')[-1]: what follows the last "/"
RECURSIVE LastSegment(_)
LastSegment(path) ==
    IF path = <<>> \/ path[Len(path)] = "/" THEN <<>>
    ELSE LastSegment(SubSeq(path, 1, Len(path) - 1)) \o <<path[Len(path)]>>

\* extract_id (7-9)
extract_id(url) == LastSegment(UrlPath(url))

\* a node label: a given title, or f"Paper {id}"
TitleLabel(title) == [kind |-> "title", title |-> title, id |-> <<>>]
PaperLabel(id) == [kind |-> "paper", title |-> None, id |-> id]

\* G.add_node(key, label=..., type=...): creates the node or updates its
\* attributes
add_node(g, key, label, type) ==
    [g EXCEPT !.nodes = Put(@, key, [label |-> label, type |-> type])]

\* G.add_edge(u, v): both nodes exist already when build_citation_graph
\* calls it
add_edgeMut(g, u, v) == IF g.edges = {} THEN [g EXCEPT !.edges = {<<u, v>>}] ELSE g
add_edge(g, u, v) == [g EXCEPT !.edges = @ \cup {<<u, v>>}]

\* line 21: root_title if root_title else f"Paper {root_id}"
RootLabel(title, id) == IF Truthy(title) THEN TitleLabel(title) ELSE PaperLabel(id)

\* line 28: data[pid].get('title', f"Paper {pid_extracted}")
CitedLabel(entry, id) ==
    IF entry.title = Absent THEN PaperLabel(id) ELSE TitleLabel(entry.title)

\* line 35: if pid_extracted != root_id
NotRootMut(pid_extracted) == TRUE
NotRoot(pid_extracted) == pid_extracted # root_id

(***************************************************************************)
(* SpecGraph: one run of build_citation_graph (12-40).                     *)
(***************************************************************************)
RootArgs ==
    { <<"https://openalex.org", "/", "W1">>, <<"W1">>,
      <<"https://openalex.org", "/", "W1", "/">> }
CitedIds ==
    { <<"https://openalex.org", "/", "W1">>,
      <<"https://api.openalex.org", "/", "W1">>,
      <<"https://openalex.org", "/", "W2">>,
      <<"https://api.openalex.org", "/", "works", "/", "W2">>,
      <<"https://openalex.org", "/", "W3", "?", "W1">>,
      <<"https://openalex.org", "/", "W2", "/">>,
      <<"unknown_0">> }
CitedEntries == { [title |-> Absent], [title |-> Str("T")] }
RootTitles == { None, Str(""), Str("RT") }

\* the orders in which a set can be iterated
Perms(S) ==
    { f \in [1..Cardinality(S) -> S] :
        \A i, j \in 1..Cardinality(S) : i # j => f[i] # f[j] }

InitGraph ==
    /\ AbstractIdle
    /\ ClientIdle
    /\ root_arg \in RootArgs
    /\ root_title \in RootTitles
    /\ \E K \in SUBSET CitedIds :
          /\ Cardinality(K) <= MaxCited
          /\ data \in [K -> CitedEntries]
    /\ root_id = <<>>
    /\ G = [nodes |-> EmptyDict, edges |-> {}]
    /\ cited_papers = <<>>
    /\ gi = 0
    /\ edges = <<>>
    /\ gpc = "start"

\* lines 17-25: the root node, and the set of keys with its iteration order
BuildStart ==
    /\ gpc = "start"
    /\ root_id' = extract_id(root_arg)
    /\ G' = add_node(G, extract_id(root_arg),
                     RootLabel(root_title, extract_id(root_arg)), "root")
    /\ cited_papers' \in Perms(DOMAIN data)
    /\ gi' = 0
    /\ gpc' = "nodes"
    /\ UNCHANGED <<root_arg, data, root_title, edges>>
    /\ UNCHANGED cvars
    /\ UNCHANGED <<hvars, avars>>

\* lines 26-29: one iteration of the node loop
AddCitedNode ==
    /\ gpc = "nodes"
    /\ gi < Len(cited_papers)
    /\ LET pid == cited_papers[gi + 1]
           pid_extracted == extract_id(pid)
       IN  G' = add_node(G, pid_extracted, CitedLabel(data[pid], pid_extracted), "cited")
    /\ gi' = gi + 1
    /\ UNCHANGED <<root_arg, data, root_title, root_id, cited_papers, edges, gpc>>
    /\ UNCHANGED cvars
    /\ UNCHANGED <<hvars, avars>>

\* line 32: edges = []
StartEdges ==
    /\ gpc = "nodes"
    /\ gi = Len(cited_papers)
    /\ edges' = <<>>
    /\ gi' = 0
    /\ gpc' = "edges"
    /\ UNCHANGED <<root_arg, data, root_title, root_id, G, cited_papers>>
    /\ UNCHANGED cvars
    /\ UNCHANGED <<hvars, avars>>

\* lines 33-37: one iteration of the edge loop
AddEdge ==
    /\ gpc = "edges"
    /\ gi < Len(cited_papers)
    /\ LET pid_extracted == extract_id(cited_papers[gi + 1])
       IN  IF NotRoot(pid_extracted)
           THEN /\ G' = add_edge(G, pid_extracted, root_id)
                /\ edges' = Append(edges, <<pid_extracted, root_id>>)
           ELSE UNCHANGED <<G, edges>>
    /\ gi' = gi + 1
    /\ UNCHANGED <<root_arg, data, root_title, root_id, cited_papers, gpc>>
    /\ UNCHANGED cvars
    /\ UNCHANGED <<hvars, avars>>

\* lines 39-40: return G, edges
ReturnGraph ==
    /\ gpc = "edges"
    /\ gi = Len(cited_papers)
    /\ gpc' = "done"
    /\ UNCHANGED <<root_arg, data, root_title, root_id, G, cited_papers, gi, edges>>
    /\ UNCHANGED cvars
    /\ UNCHANGED <<hvars, avars>>

NextGraph == BuildStart \/ AddCitedNode \/ StartEdges \/ AddEdge \/ ReturnGraph

SpecGraph == InitGraph /\ [][NextGraph]_vars

(***************************************************************************)
(* Claims about _make_request, checked under SpecRequest.                  *)
(***************************************************************************)
No200(s) == \A i \in 1..Len(s) : s[i] # "200"

\* C2: one call of _make_request issues at most max_retries GET attempts,
\* returns at the first attempt that yields 200 when that attempt is among
\* the first max_retries, and otherwise raises after exactly max_retries
\* attempts; with max_retries = 3, [429, 429, 200] returns at the third
\* attempt and [500, 500, 500] raises.
C2_BoundedRetries ==
    /\ Len(outcomes) <= max_retries
    /\ pc = "request" =>
          /\ ret = "none"
          /\ attempt = Len(outcomes)
          /\ attempt < max_retries
          /\ No200(outcomes)
    /\ (pc = "idle" /\ calls > 0) => ret \in {"returned", "raised"}
    /\ ret = "returned" =>
          /\ outcomes # <<>>
          /\ outcomes[Len(outcomes)] = "200"
          /\ No200(SubSeq(outcomes, 1, Len(outcomes) - 1))
    /\ ret = "raised" =>
          /\ Len(outcomes) = max_retries
          /\ No200(outcomes)
    /\ (max_retries = 3 /\ outcomes = <<"429", "429", "200">>) => ret = "returned"
    /\ (max_retries = 3 /\ outcomes = <<"other", "other", "other">>) => ret = "raised"

C2_Witness ==
    /\ max_retries = 3
    /\ outcomes = <<"429", "429", "200">>
    /\ ret = "returned"

\* C18: when attempt k, not the last one allowed, ends with 429, with
\* another non-200 status or with a network fault, the client sleeps
\* delay * 2^k before attempt k+1 (backoff is counted in units of delay).
C18_SameBackoff ==
    (pc = "request" /\ outcomes # <<>>) => backoff = Pow2(Len(outcomes) - 1)

\* C19: every GET attempt of a client instance except its very first one is
\* immediately preceded by the rate-limiting sleep, whatever the earlier
\* attempts ended in.
C19_RateLimitEveryGet ==
    gets >= 2 => ratelimited

(***************************************************************************)
(* Claims about get_citations, checked under Spec.                         *)
(***************************************************************************)
\* C1: whatever the HTTP attempts end in and whatever the raw records look
\* like, no exception leaves get_citations, and what it returns is a
\* mapping: {}, {root: {}} or {root: citations, _metadata: ...}.
C1_AlwaysAValue ==
    /\ exc = "none"
    /\ pc = "done" =>
          /\ result # None
          /\ \/ result = EmptyDict
             \/ /\ query_alex_repsone.isdict
                /\ \/ result = Minimal(query_alex_repsone)
                   \/ DOMAIN result = {RootKey(query_alex_repsone).s, "_metadata"}

\* the search request exhausted its retries on network faults and the run
\* still ended with a value
C1_Witness ==
    /\ pc = "done"
    /\ gets = max_retries
    /\ request_count = 0
    /\ max_retries > 1
    /\ result = EmptyDict

\* C10: request_count equals the number of GET attempts the client has
\* issued, attempts that ended in a network-level fault included, and
\* requests_made in the result metadata reports that number.
C10_CountsEveryAttempt ==
    /\ request_count = gets
    /\ (pc = "done" /\ exc = "none" /\ "_metadata" \in DOMAIN result) =>
          result["_metadata"].requests_made = gets

\* C16: get_openalex_id issues one search request, with page 1, page size
\* 25 and sort by descending citation count; the first element of the
\* response's results list becomes the resolved paper, and no paper is
\* resolved (None) when the results list is empty, null or absent.
C16_ResolveFirst ==
    /\ gets > 0 =>
          /\ reqs[1] = [url |-> "base_url", search |-> Query, page |-> 1,
                        per_page |-> 25, sort |-> "cited_by_count:desc"]
          /\ \A i \in 2..Len(reqs) : reqs[i].url # "base_url"
    /\ sbody.kind = "dict" =>
          /\ ResultsFalsy(sbody) => query_alex_repsone = None
          /\ ~ResultsFalsy(sbody) =>
                query_alex_repsone = sbody.results.items[1]

\* the results list held two works and the first one was resolved
C16_Witness ==
    /\ sbody.kind = "dict"
    /\ Len(sbody.results.items) = 2
    /\ query_alex_repsone = Paper(Str("W1"), Str("U"), Str("T"))
    /\ Len(reqs) = 2

\* the search returned 200 with a non-empty results list whose first
\* element, a non-empty mapping, is the resolved paper
Resolved ==
    /\ sbody.kind = "dict"
    /\ ~ResultsFalsy(sbody)
    /\ sbody.results.items[1].isdict
    /\ PaperTruthy(sbody.results.items[1])
    /\ query_alex_repsone = sbody.results.items[1]

\* C13: get_citations returns {} when the search yields no paper (results
\* empty, null or absent), when the resolved paper has no citation URL, and
\* when the search request exhausts its retries; it returns {rootId: {}}
\* and no other key when paper and URL are resolved and pagination collects
\* no raw record.  rootId is the paper's identifier, a string, or "root"
\* for a paper without one.
C13_ShortCircuits ==
    pc = "done" =>
        /\ (pages = <<>> /\ ret = "raised") => result = EmptyDict
        /\ (sbody.kind = "dict" /\ ResultsFalsy(sbody)) =>
              (result = EmptyDict /\ query_alex_repsone = None)
        /\ (Resolved /\ ~Truthy(GetOrNone(query_alex_repsone.cited_by_api_url))) =>
              (result = EmptyDict /\ pages = <<>>)
        /\ (Resolved /\ Truthy(citation_url)
              /\ query_alex_repsone.id.t \in {"str", "absent"}
              /\ Len(cites) = 0) =>
              /\ DOMAIN result =
                    {IF query_alex_repsone.id = Absent THEN "root"
                     ELSE query_alex_repsone.id.s}
              /\ \A k \in DOMAIN result : result[k] = EmptyDict

\* the first citation page failed after the paper W1 and its URL were
\* resolved
C13_Witness ==
    /\ pc = "done"
    /\ Resolved
    /\ query_alex_repsone.id = Str("W1")
    /\ Len(fetched) = 1 /\ ~fetched[1].ok
    /\ DOMAIN result = {"W1"}

\* the stages a run has been through show in its state
StageOrder ==
    \* Paginate only after ResolvePaper and ResolveCitationURL succeeded
    /\ pages # <<>> =>
          /\ Resolved
          /\ Truthy(GetOrNone(query_alex_repsone.cited_by_api_url))
          /\ citation_url = query_alex_repsone.cited_by_api_url
    \* the search is the first request and the only one to the search URL
    /\ \A i \in 1..Len(reqs) : (reqs[i].url = "base_url") <=> (i = 1)
    /\ Len(reqs) = 1 + Len(pages)
    \* Normalize only after Paginate has collected something
    /\ pc = "normalize" =>
          /\ pages # <<>> /\ Len(fetched) = Len(pages)
          /\ Len(cites) > 0 /\ idx = 0 /\ result = None
    \* Assemble only after Normalize
    /\ (pc = "done" /\ "_metadata" \in DOMAIN result) =>
          (pages # <<>> /\ idx = Len(cites) /\ Len(cites) > 0)
    \* a short-circuit in ResolvePaper or ResolveCitationURL: no page request
    /\ (pc = "done" /\ (query_alex_repsone = None \/ ~Truthy(citation_url))) =>
          (pages = <<>> /\ result = EmptyDict /\ idx = 0)
    \* a short-circuit in Paginate: nothing is normalized
    /\ (pc = "done" /\ Truthy(citation_url) /\ Len(cites) = 0) =>
          (idx = 0 /\ "_metadata" \notin DOMAIN result)

\* C17: the stages of a run occur in the order ResolvePaper,
\* ResolveCitationURL, Paginate, Normalize, Assemble: a citation page is
\* requested only after the search returned 200 with a non-empty results
\* list and the resolved paper carries a citation URL, and once the run
\* has ended, short-circuited or not, no further GET is issued.
C17_StageOrder ==
    /\ [](gets > 0 => StageOrder)
    /\ [][pc = "done" => gets' = gets]_vars
    /\ [][pc' = "page" => (pc \in {"search", "page"} /\ gets' = gets + 1)]_vars

\* a run that went through all five stages, with two citation pages
C17_Witness ==
    /\ pc = "done"
    /\ "_metadata" \in DOMAIN result
    /\ Len(pages) = 2
    /\ Len(reqs) = 3

\* ceil(m / d)
CeilDiv(m, d) == (m + d - 1) \div d

\* C21: for max_retries = N >= 1 and max_citations = M >= 0 a run of
\* get_citations ends, whatever the API answers, and issues at most
\* N * (1 + ceil(M / 25)) GET attempts: at most N for the search and at most
\* ceil(M / 25) citation pages of at most N attempts each.
C21_TerminatesBounded ==
    /\ <>(pc = "done")
    /\ [](/\ gets <= max_retries * (1 + CeilDiv(max_citations, 25))
          /\ Len(pages) <= CeilDiv(max_citations, 25)
          /\ attempt < max_retries
          /\ gets <= max_retries * (IF pc = "search" THEN 1 ELSE 1 + Len(pages)))

\* the bound is met: with N = 3 and M = 30 the search and both pages each
\* took three attempts
C21_Witness ==
    /\ pc = "done"
    /\ max_retries = 3 /\ max_citations = 30
    /\ Len(pages) = 2
    /\ gets = 9

\* C15: when the result has the _metadata entry, its total_citations is the
\* number of CitationRecords stored under the root paper's key and its
\* query is the client's query; for root W1 with citers W2 and W3 (W3
\* without authorships) the result is {W1: {W2: ..., W3: {authors: []}},
\* _metadata: {total_citations: 2}}.  Identifiers are OpenAlex work
\* identifiers, none of which is "_metadata".
C15_Metadata ==
    (pc = "done" /\ "_metadata" \in DOMAIN result) =>
        LET root == RootKey(query_alex_repsone).s
        IN  /\ root \in DOMAIN result
            /\ result["_metadata"].total_citations = Cardinality(DOMAIN result[root])
            /\ result["_metadata"].query = Query
            /\ (query_alex_repsone.id = Str("W1") /\ cites = TwoCiters) =>
                  /\ DOMAIN result = {"W1", "_metadata"}
                  /\ DOMAIN result["W1"] = {"W2", "W3"}
                  /\ result["W1"]["W3"].authors = JList(<<>>)
                  /\ result["W1"]["W2"].authors = JList(<<Str("A")>>)
                  /\ result["_metadata"].total_citations = 2

\* the run for root W1 whose only page holds W2 and W3
C15_Witness ==
    /\ pc = "done"
    /\ "_metadata" \in DOMAIN result
    /\ query_alex_repsone.id = Str("W1")
    /\ Len(fetched) = 1
    /\ fetched[1].items = TwoCiters
    /\ result["_metadata"].total_citations = 2

\* C22: when the paper and its citation URL are resolved, the result of
\* get_citations has the _metadata entry if and only if pagination collected
\* at least one raw entry; when every collected entry is skipped as
\* malformed the result is {rootId: {}, _metadata: {total_citations: 0}},
\* which is not the {rootId: {}} returned when nothing was collected.
\* rootId is the paper's identifier, a string, or "root".
C22_MetadataIffCollected ==
    (/\ pc = "done"
     /\ Resolved
     /\ Truthy(citation_url)
     /\ query_alex_repsone.id.t \in {"str", "absent"}) =>
        LET root == RootKey(query_alex_repsone).s
        IN  /\ "_metadata" \in DOMAIN result <=> Len(all_citations) > 0
            /\ Len(all_citations) = 0 => result = Minimal(query_alex_repsone)
            /\ (Len(all_citations) > 0 /\ citations = EmptyDict) =>
                  /\ DOMAIN result = {root, "_metadata"}
                  /\ result[root] = EmptyDict
                  /\ result["_metadata"].total_citations = 0
                  /\ result # Minimal(query_alex_repsone)

\* the only page of the run for W1 held one entry that is not a mapping
C22_Witness ==
    /\ pc = "done"
    /\ Resolved
    /\ query_alex_repsone.id = Str("W1")
    /\ Len(fetched) = 1
    /\ fetched[1].items = <<NonDictRec>>
    /\ cites = <<NonDictRec>>
    /\ DOMAIN result = {"W1", "_metadata"}
    /\ result["W1"] = EmptyDict
    /\ result["_metadata"].total_citations = 0

(***************************************************************************)
(* Claims about query_citation_url, checked under SpecPaginate.            *)
(***************************************************************************)
RECURSIVE TotalSize(_)
TotalSize(f) ==
    IF f = <<>> THEN 0 ELSE Len(f[Len(f)].items) + TotalSize(SubSeq(f, 1, Len(f) - 1))

RECURSIVE Concat(_)
Concat(f) ==
    IF f = <<>> THEN <<>> ELSE Concat(SubSeq(f, 1, Len(f) - 1)) \o f[Len(f)].items

AllFull(f) == \A i \in 1..Len(f) : f[i].ok /\ Len(f[i].items) >= 25

Sizes(f) == [i \in 1..Len(f) |-> Len(f[i].items)]

\* C3: pages 1, 2, 3, ... are requested consecutively; a further page is
\* requested exactly when every page fetched so far succeeded with at least
\* 25 records and fewer than max_citations records are accumulated; page
\* sizes [25, 25, 10] with max_citations = 100 give 3 requests, 60 records.
C3_PaginationStops ==
    pc # "paginate" =>
        /\ pages = [i \in 1..Len(pages) |-> i]
        /\ Len(pages) \in {Len(fetched), Len(fetched) + 1}
        /\ (Len(pages) = Len(fetched) + 1) <=>
              (AllFull(fetched) /\ TotalSize(fetched) < max_citations)
        /\ (pc = "page") <=> (Len(pages) = Len(fetched) + 1)
        /\ (max_citations = 100 /\ Sizes(fetched) = <<25, 25, 10>>
              /\ \A i \in 1..3 : fetched[i].ok) =>
              (Len(pages) = 3 /\ pc # "page" /\ Len(cites) = 60)

C3_Witness ==
    /\ max_citations = 100
    /\ Len(fetched) = 3
    /\ fetched[3].ok
    /\ Sizes(fetched) = <<25, 25, 10>>
    /\ pc = "normalize"
    /\ Len(cites) = 60

\* C4: the returned sequence is the first min(max_citations, T) records, in
\* page order, of the concatenation of the successfully fetched pages; it
\* is never longer than max_citations, and a failing page leaves the
\* records of the pages before it in the result, without an exception.
C4_TruncatedPrefix ==
    pc \in {"normalize", "done"} =>
        LET whole == Concat(fetched)
            T == Len(whole)
        IN  /\ exc = "none"
            /\ Len(cites) = (IF max_citations < T THEN max_citations ELSE T)
            /\ Len(cites) <= max_citations
            /\ \A i \in 1..Len(cites) : cites[i] = whole[i]

\* page 2 failed after a full page 1, and page 1's records are returned
C4_Witness ==
    /\ pc = "normalize"
    /\ Len(fetched) = 2
    /\ fetched[1].ok /\ Len(fetched[1].items) = 26
    /\ ~fetched[2].ok
    /\ max_citations = 30
    /\ Len(cites) = 26

(***************************************************************************)
(* Claims about the normalization loop, checked under SpecNorm.            *)
(***************************************************************************)
\* primary_location, its source or the source's display_name is absent or null
MissingHop(cite) ==
    LET pl == cite.primary_location
    IN  \/ pl.t \in {"absent", "none"}
        \/ pl.source.t \in {"absent", "none"}
        \/ pl.source.display_name \in {Absent, None}

\* C6: a raw record that is a mapping and misses a hop of primary_location ->
\* source -> display_name (absent or null) still yields a CitationRecord,
\* whose venue is the empty string.
C6_VenueDefaults ==
    (idx > 0 /\ cites[idx].isdict /\ MissingHop(cites[idx])
       /\ Hashable(GetOrNone(cites[idx].id))) =>
        /\ keylog[idx].stored
        /\ citations[keylog[idx].key].venue = Str("")

\* C7: no two accepted records are stored under the same key: a record with
\* an identifier is keyed by it, one without by "unknown_<n>" with n the
\* number of records accepted so far, and the result has one entry per
\* accepted record.
C7_NoKeyCollision ==
    /\ \A i, j \in 1..Len(keylog) :
          (i # j /\ keylog[i].stored /\ keylog[j].stored) => keylog[i].key # keylog[j].key
    /\ \A i \in 1..Len(keylog) :
          keylog[i].stored =>
              keylog[i].key = (IF Truthy(GetOrNone(cites[i].id)) THEN cites[i].id.s
                               ELSE "unknown_" \o ToString(keylog[i].n))
    /\ Cardinality(DOMAIN citations) = accepted

\* the entries among the first n that the run stored, in their order
RECURSIVE KeptUpTo(_)
KeptUpTo(n) ==
    IF n = 0 THEN <<>>
    ELSE IF keylog[n].stored THEN Append(KeptUpTo(n - 1), cites[n])
    ELSE KeptUpTo(n - 1)

\* C11: an entry that is not a mapping or whose normalization raises is
\* skipped, whatever its position and whatever the other entries are, and
\* the keys and CitationRecords collected are exactly those of normalizing
\* the sequence with the skipped entries removed.
C11_SkipIsolation ==
    /\ \A i \in 1..idx :
          keylog[i].stored <=> (cites[i].isdict /\ ~CiteRaises(EmptyDict, cites[i]))
    /\ citations = ProcessAll(EmptyDict, KeptUpTo(idx), 1)
    /\ Len(KeptUpTo(idx)) = accepted

\* an entry whose normalization raised is followed by one without an
\* identifier, which is stored as the first record
C11_Witness ==
    /\ pc = "done"
    /\ Len(cites) = 2
    /\ cites[1].isdict /\ ~keylog[1].stored
    /\ cites[2].id = Absent /\ keylog[2].stored
    /\ DOMAIN citations = {"unknown_0"}

(***************************************************************************)
(* Claims about build_citation_graph, checked under SpecGraph.             *)
(***************************************************************************)
\* the distinct extracted citing identifiers other than the root's
Citing == { extract_id(k) : k \in DOMAIN data } \ { extract_id(root_arg) }

EdgeList == { edges[i] : i \in 1..Len(edges) }

\* C5: no edge has its source equal to its target, every edge targets the
\* root's extracted identifier, and the graph has 1 + (number of distinct
\* extracted citing identifiers other than the root's) nodes.
C5_NoSelfLoop ==
    /\ \A e \in G.edges \cup EdgeList :
          e[1] # e[2] /\ e[2] = extract_id(root_arg)
    /\ gpc = "done" =>
          Cardinality(DOMAIN G.nodes) = 1 + Cardinality(Citing)

\* the mapping holds the root's own identifier and another citer
C5_Witness ==
    /\ gpc = "done"
    /\ \E k \in DOMAIN data : extract_id(k) = extract_id(root_arg)
    /\ Cardinality(DOMAIN data) >= 2
    /\ Len(edges) >= 1

\* C8: the returned edge list holds exactly one pair (c, root) for each
\* distinct extracted citing identifier c other than the root's, nothing
\* else, and has the members of the graph's edge set.
C8_OnePairPerCiter ==
    gpc = "done" =>
        /\ EdgeList = { <<c, extract_id(root_arg)>> : c \in Citing }
        /\ Len(edges) = Cardinality(Citing)
        /\ EdgeList = G.edges

\* C9: the graph has exactly one node of type 'root', keyed by the root's
\* extracted identifier and labelled root_title if given, else
\* "Paper <id>"; every other node has type 'cited'.
C9_OneRootNode ==
    gpc = "done" =>
        LET r == extract_id(root_arg)
        IN  /\ { k \in DOMAIN G.nodes : G.nodes[k].type = "root" } = {r}
            /\ G.nodes[r].label =
                  (IF Truthy(root_title) THEN TitleLabel(root_title) ELSE PaperLabel(r))
            /\ \A k \in DOMAIN G.nodes \ {r} : G.nodes[k].type = "cited"

(***************************************************************************)
(* Claims about _reconstruct_abstract, checked under SpecAbstract.         *)
(***************************************************************************)
\* the place in the output of the i-th pair of the flattened index: after
\* the pairs of a smaller position and the earlier pairs of the same position
Place(F, i) ==
    1 + Cardinality({ j \in 1..Len(F) :
                        F[j][1] < F[i][1] \/ (F[j][1] = F[i][1] /\ j < i) })

Ordered(F) == [k \in 1..Len(F) |-> F[CHOOSE i \in 1..Len(F) : Place(F, i) = k]]

RECURSIVE Spaced(_)
Spaced(ws) ==
    IF Len(ws) = 0 THEN ""
    ELSE IF Len(ws) = 1 THEN ws[1][2]
    ELSE Spaced(SubSeq(ws, 1, Len(ws) - 1)) \o " " \o ws[Len(ws)][2]

\* C14: for a non-empty inverted index the returned string is the words
\* joined by single spaces, one occurrence per (word, position) pair, by
\* ascending position and, for equal positions, in the index's iteration
\* order; a second reconstruction returns the same string; and
\* {"a": [0, 2], "b": [1]} gives "a b a".
C14_ReconstructAbstract ==
    /\ (apc # "call" /\ abstract_inverted_index # <<>>) =>
          abstract = Spaced(Ordered(Flatten(abstract_inverted_index)))
    /\ apc = "done" => again = abstract
    /\ (apc # "call" /\ abstract_inverted_index =
            <<Entry("a", <<0, 2>>), Entry("b", <<1>>)>>) => abstract = "a b a"

\* two words share position 0 and the one iterated first comes first
C14_Witness ==
    /\ apc = "done"
    /\ abstract_inverted_index = <<Entry("b", <<1, 0>>), Entry("a", <<0>>)>>
    /\ abstract = "b a b"

(***************************************************************************)
(* Claims about the fields of a CitationRecord, checked under SpecFields.  *)
(***************************************************************************)
\* missing, null or not a list
NotAList(v) == v.t \in {"absent", "none", "str", "int", "dict"}

\* C12: in every stored CitationRecord related_works, references, authors
\* and concepts are lists; related_works, references and authors are empty
\* when the raw related_works, referenced_works or authorships is missing,
\* null or not a list.
C12_ListFields ==
    /\ \A k \in DOMAIN citations :
          /\ citations[k].related_works.t = "list"
          /\ citations[k].references.t = "list"
          /\ citations[k].authors.t = "list"
          /\ citations[k].concepts.t = "list"
    /\ (idx > 0 /\ keylog[idx].stored) =>
          LET raw == cites[idx]
              out == citations[keylog[idx].key]
          IN  /\ NotAList(raw.related_works) => out.related_works = JList(<<>>)
              /\ NotAList(raw.referenced_works) => out.references = JList(<<>>)
              /\ NotAList(raw.authorships) => out.authors = JList(<<>>)

\* a record whose three fields are null was stored, after one whose fields
\* are strings
C12_Witness ==
    /\ pc = "done"
    /\ Len(cites) = 2
    /\ cites[1].related_works = JText /\ cites[1].authorships = JText
    /\ cites[2].related_works = JNull /\ cites[2].referenced_works = JNull
    /\ cites[2].authorships = JNull
    /\ keylog[1].stored /\ keylog[2].stored
    /\ citations[keylog[2].key].authors = JList(<<>>)

\* C20: for a fixed root identifier and citation mapping, the node keys and
\* the edges that build_citation_graph produces are the same for every
\* iteration order of the set of citing identifiers: both are determined
\* by the root identifier and the keys of the mapping alone.
C20_OrderIndependent ==
    gpc = "done" =>
        /\ DOMAIN G.nodes =
              {extract_id(root_arg)} \cup { extract_id(k) : k \in DOMAIN data }
        /\ G.edges = { <<c, extract_id(root_arg)>> : c \in Citing }
        /\ EdgeList = G.edges

\* two keys with the same extracted identifier and different titles were
\* iterated with the titled one last: the order shows in the label only
C20_Witness ==
    /\ gpc = "done"
    /\ Len(cited_papers) = 2
    /\ extract_id(cited_papers[1]) = extract_id(cited_papers[2])
    /\ data[cited_papers[1]].title = Absent
    /\ data[cited_papers[2]].title = Str("T")
    /\ cited_papers[2] = <<"https://openalex.org", "/", "W2">>
    /\ G.nodes[<<"W2">>].label = TitleLabel(Str("T"))

=============================================================================
